---- MODULE Spec2Model ----
(***************************************************************************)
(* The Extreme Learning Machine of elm/elm-tutorial.ipynb.                 *)
(*                                                                         *)
(* The notebook keeps its model in module-level names: input_weights and  *)
(* biases (cell 7), output_weights (cell 9).  hidden_nodes is the random   *)
(* projection ("Project"), the assignment to output_weights is the output  *)
(* solver ("Solve"), predict is the predictor ("Predict").  Cell 3 is the  *)
(* feature/label preparation, cell 11 the accuracy loop.                   *)
(*                                                                         *)
(* numpy's float64 values are modelled as exact rationals <<n, d>> with    *)
(* d > 0 and gcd(n, d) = 1, so that the pseudo-inverse is computed and not *)
(* assumed.  A matrix is a sequence of rows, a vector a sequence of        *)
(* numbers.  Python's exceptions are named after the error they stand for: *)
(* ValueError "shapes not aligned" is ShapeMismatch, NameError on          *)
(* output_weights is ModelNotFitted, LinAlgError is NumericalFailure.      *)
(***************************************************************************)
EXTENDS Integers, Sequences, FiniteSets, TLC

(***************************************************************************)
(* Exact arithmetic.                                                       *)
(***************************************************************************)
Abs(n) == IF n < 0 THEN -n ELSE n

RECURSIVE GCD(_, _)
GCD(a, b) == IF b = 0 THEN a ELSE GCD(b, a % b)

Rat(n, d) ==
    LET g == GCD(Abs(n), Abs(d))
        s == IF d < 0 THEN -1 ELSE 1
    IN  <<(s * n) \div g, (s * d) \div g>>

Zero == <<0, 1>>
One == <<1, 1>>
Num(n) == <<n, 1>>

RAdd(p, q) == Rat(p[1] * q[2] + q[1] * p[2], p[2] * q[2])
RNeg(p) == <<-p[1], p[2]>>
RSub(p, q) == RAdd(p, RNeg(q))
RMul(p, q) == Rat(p[1] * q[1], p[2] * q[2])
RDiv(p, q) == Rat(p[1] * q[2], p[2] * q[1])
RLess(p, q) == p[1] * q[2] < q[1] * p[2]

(***************************************************************************)
(* Arrays.  Array(F, n) is the array <<F(1), ..., F(n)>>, built eagerly.   *)
(***************************************************************************)
RECURSIVE Array(_, _)
Array(F(_), n) == IF n = 0 THEN <<>> ELSE Append(Array(F, n - 1), F(n))

Rows(A) == Len(A)
Cols(A) == Len(A[1])
Shape(A) == <<Rows(A), Cols(A)>>
Column(A, j) == Array(LAMBDA i : A[i][j], Rows(A))
Transpose(A) == Array(LAMBDA j : Column(A, j), Cols(A))
RECURSIVE InnerTo(_, _, _)
InnerTo(u, v, n) ==
    IF n = 0 THEN Zero ELSE RAdd(InnerTo(u, v, n - 1), RMul(u[n], v[n]))

\* the inner product of two vectors of the same length
Inner(u, v) == InnerTo(u, v, Len(u))

\* np.dot of two 2-D arrays whose inner dimensions agree
dot(A, B) ==
    LET Bt == Transpose(B)
    IN  Array(LAMBDA i : Array(LAMBDA j : Inner(A[i], Bt[j]), Len(Bt)), Rows(A))

\* np.dot raises ValueError unless the inner dimensions agree
Aligned(A, B) == Cols(A) = Rows(B)

\* G + biases: the vector is broadcast over the rows, the sum is a new array
add(G, bias) ==
    Array(LAMBDA i : Array(LAMBDA j : RAdd(G[i][j], bias[j]), Cols(G)), Rows(G))

\* np.maximum(x, 0) elementwise
maximum(x) ==
    Array(LAMBDA i : Array(LAMBDA j :
        IF RLess(x[i][j], Zero) THEN Zero ELSE x[i][j], Cols(x)), Rows(x))

(***************************************************************************)
(* scipy.linalg.pinv2: the Moore-Penrose pseudo-inverse.  The library goes *)
(* through a singular value decomposition; in exact arithmetic the result  *)
(* is the one Greville's column recursion builds.                          *)
(***************************************************************************)
MatVec(A, v) == Array(LAMBDA i : Inner(A[i], v), Rows(A))
VecMat(v, A) == Array(LAMBDA j : Inner(v, Column(A, j)), Cols(A))
VSub(u, v) == Array(LAMBDA k : RSub(u[k], v[k]), Len(u))
VScale(v, c) == Array(LAMBDA k : RMul(v[k], c), Len(v))
IsZeroVec(v) == \A k \in 1..Len(v) : v[k] = Zero
FirstCols(A, k) == Array(LAMBDA i : SubSeq(A[i], 1, k), Rows(A))

RECURSIVE Greville(_, _)
\* the pseudo-inverse of the first k columns of A, a k x Rows(A) matrix
Greville(A, k) ==
    LET a == Column(A, k)
    IN  IF k = 1
        THEN IF IsZeroVec(a)
             THEN <<Array(LAMBDA i : Zero, Rows(A))>>
             ELSE <<VScale(a, RDiv(One, Inner(a, a)))>>
        ELSE LET P == Greville(A, k - 1)
                 d == MatVec(P, a)
                 c == VSub(a, MatVec(FirstCols(A, k - 1), d))
                 row == IF IsZeroVec(c)
                        THEN VScale(VecMat(d, P), RDiv(One, RAdd(One, Inner(d, d))))
                        ELSE VScale(c, RDiv(One, Inner(c, c)))
             IN  Array(LAMBDA i :
                    IF i = k THEN row
                    ELSE Array(LAMBDA j : RSub(P[i][j], RMul(d[i], row[j])), Rows(A)), k)

pinv2(A) == Greville(A, Cols(A))

(***************************************************************************)
(* Bounds of the model.                                                    *)
(***************************************************************************)
MaxFeatures == 2    \* input_size, the number of feature columns
MaxHidden == 2      \* hidden_size, the number of hidden neurons
MaxRows == 2        \* the most rows of a feature or label matrix

input_size == MaxFeatures
hidden_size == MaxHidden
Classes == {0, 1}
Seeds == {0, 1}     \* the seeds of the random source and of the sample data

\* a name that is not bound: output_weights before cell 9 has run, the value
\* of a call that raised
Unbound == <<>>

\* the k-th draw of np.random.normal under a seed
Normal(seed, k) == Num((((seed + 2) * k * k + k + 3 * seed) % 5) - 2)

\* np.random.normal(size=[r, c]), filled row by row from draw number `from`
NormalMatrix(seed, from, r, c) ==
    Array(LAMBDA i : Array(LAMBDA j : Normal(seed, from + (i - 1) * c + j - 1), c), r)

\* the feature matrices a caller may pass: the right width and one too wide
Sample(s, r, c) ==
    Array(LAMBDA i : Array(LAMBDA j : Num(((s * i + j + s) % 4) - 1), c), r)

FeatureMatrices ==
    {Sample(s, r, c) : s \in Seeds, r \in 1..MaxRows,
                       c \in {input_size, input_size + 1}}

\* one-hot label matrices, one column per class
OneHotRow(label) ==
    Array(LAMBDA j : IF j = label + 1 THEN One ELSE Zero, Cardinality(Classes))

\* the label matrices a caller may pass, with alternating classes
Targets(s, r) ==
    Array(LAMBDA i : OneHotRow((s + i) % Cardinality(Classes)), r)

LabelMatrices == {Targets(s, r) : s \in Seeds, r \in 1..MaxRows}

\* the label values of the raw data sets
Labels == {0, 1, 2}

\* a raw data set as read by pd.read_csv: one row per sample, the label in
\* the first column and input_size pixel columns after it
Dataset(labels, s) ==
    Array(LAMBDA i : <<Num(labels[i])>> \o
              Array(LAMBDA j : Num((s * i + j) % 3), input_size),
          Len(labels))

\* the square root of a rational, where it is rational
IsSquare(n) == \E r \in 0..n : r * r = n
Root(n) == CHOOSE r \in 0..n : r * r = n
HasRoot(p) == p[1] >= 0 /\ IsSquare(p[1]) /\ IsSquare(p[2])
RSqrt(p) == <<Root(p[1]), Root(p[2])>>

\* np.var of column j: the mean squared deviation from the mean
Mean(A, j) == RDiv(Inner(Column(A, j), Array(LAMBDA i : One, Rows(A))), Num(Rows(A)))
Variance(A, j) ==
    LET dev == Array(LAMBDA i : RSub(A[i][j], Mean(A, j)), Rows(A))
    IN  RDiv(Inner(dev, dev), Num(Rows(A)))

\* the data sets whose column deviations are rational numbers
Scalable(D) == \A j \in 2..Cols(D) : HasRoot(Variance(D, j))

Datasets ==
    {D \in UNION {{Dataset(l, s) : l \in [1..n -> Labels], s \in Seeds} :
                  n \in 1..MaxRows} : Scalable(D)}

(***************************************************************************)
(* The notebook's code.  A call works on a memory: the arrays bound to the *)
(* names it can reach.  An operation that writes in place changes the      *)
(* array bound to the name it is given; one that builds a new array binds  *)
(* the temporary G.                                                        *)
(***************************************************************************)
Memory(X, Y, W, b, Wout) ==
    [X |-> X, Y |-> Y, input_weights |-> W, biases |-> b,
     output_weights |-> Wout, G |-> Unbound]

\* relu with np.minimum in place of np.maximum
relu_minimum(mem, x) ==
    [mem EXCEPT ![x] =
        Array(LAMBDA i : Array(LAMBDA j :
            IF RLess(Zero, mem[x][i][j]) THEN Zero ELSE mem[x][i][j],
            Cols(mem[x])), Rows(mem[x]))]

\* def relu(x): return np.maximum(x, 0, x) -- the third argument is `out`:
\* the result is written into the array x itself
relu(mem, x) == [mem EXCEPT ![x] = maximum(mem[x])]

\* hidden_nodes that rectifies the biases in place before adding them
hidden_nodes_rectified_biases(mem) ==
    IF ~Aligned(mem.X, mem.input_weights)
    THEN [status |-> "ShapeMismatch", mem |-> mem, value |-> Unbound]
    ELSE LET m1 == [mem EXCEPT !.G = dot(mem.X, mem.input_weights)]
             m2 == [m1 EXCEPT !.biases = maximum(<<m1.biases>>)[1]]
             m3 == [m2 EXCEPT !.G = maximum(add(m2.G, m2.biases))]
         IN  [status |-> "ok", mem |-> m3, value |-> m3.G]

\* hidden_nodes that slices X to the first input_size columns it can use
hidden_nodes_sliced(mem) ==
    LET width == IF Cols(mem.X) < Rows(mem.input_weights)
                 THEN Cols(mem.X) ELSE Rows(mem.input_weights)
        G == dot(FirstCols(mem.X, width), SubSeq(mem.input_weights, 1, width))
        H == maximum(add(G, mem.biases))
    IN  [status |-> "ok", mem |-> [mem EXCEPT !.G = H], value |-> H]

\* hidden_nodes that applies relu to X itself before the product
hidden_nodes_rectified_input(mem) ==
    IF ~Aligned(mem.X, mem.input_weights)
    THEN [status |-> "ShapeMismatch", mem |-> mem, value |-> Unbound]
    ELSE LET m0 == [mem EXCEPT !.X = maximum(mem.X)]
             m1 == [m0 EXCEPT !.G = dot(m0.X, m0.input_weights)]
             m2 == [m1 EXCEPT !.G = maximum(add(m1.G, m1.biases))]
         IN  [status |-> "ok", mem |-> m2, value |-> m2.G]

\* def hidden_nodes(X)
hidden_nodes(mem) ==
    IF ~Aligned(mem.X, mem.input_weights)
    THEN [status |-> "ShapeMismatch", mem |-> mem, value |-> Unbound]
    ELSE LET m1 == [mem EXCEPT !.G = dot(mem.X, mem.input_weights)]
             m2 == [m1 EXCEPT !.G = add(m1.G, m1.biases)]
             m3 == relu(m2, "G")
         IN  [status |-> "ok", mem |-> m3, value |-> m3.G]

\* cell 9 clearing output_weights before it computes the new value
output_weights_cell_cleared(mem, converges) ==
    LET h == hidden_nodes(mem)
        cleared == [h.mem EXCEPT !.output_weights = Unbound]
    IN  IF h.status # "ok" THEN h
        ELSE IF ~converges
        THEN [status |-> "NumericalFailure", mem |-> cleared, value |-> Unbound]
        ELSE LET P == pinv2(h.value)
             IN  IF ~Aligned(P, mem.Y)
                 THEN [status |-> "ShapeMismatch", mem |-> cleared, value |-> Unbound]
                 ELSE LET Wout == dot(P, mem.Y)
                      IN  [status |-> "ok",
                           mem |-> [h.mem EXCEPT !.output_weights = Wout],
                           value |-> Wout]

\* cell 9 in two statements: output_weights = pinv2(...), then
\* output_weights = np.dot(output_weights, y_train)
output_weights_cell_two_steps(mem, converges) ==
    LET h == hidden_nodes(mem)
    IN  IF h.status # "ok" THEN h
        ELSE IF ~converges
        THEN [status |-> "NumericalFailure", mem |-> h.mem, value |-> Unbound]
        ELSE LET P == pinv2(h.value)
                 m1 == [h.mem EXCEPT !.output_weights = P]
             IN  IF ~Aligned(P, mem.Y)
                 THEN [status |-> "ShapeMismatch", mem |-> m1, value |-> Unbound]
                 ELSE LET Wout == dot(P, mem.Y)
                      IN  [status |-> "ok",
                           mem |-> [m1 EXCEPT !.output_weights = Wout],
                           value |-> Wout]

\* cell 9 adding the new solution to the weights already there
output_weights_cell_accumulating(mem, converges) ==
    LET h == hidden_nodes(mem)
    IN  IF h.status # "ok" THEN h
        ELSE IF ~converges
        THEN [status |-> "NumericalFailure", mem |-> h.mem, value |-> Unbound]
        ELSE LET P == pinv2(h.value)
             IN  IF ~Aligned(P, mem.Y)
                 THEN [status |-> "ShapeMismatch", mem |-> h.mem, value |-> Unbound]
                 ELSE LET new == dot(P, mem.Y)
                          old == mem.output_weights
                          Wout == IF old = Unbound \/ Shape(old) # Shape(new)
                                  THEN new
                                  ELSE Array(LAMBDA i : Array(LAMBDA j :
                                           RAdd(old[i][j], new[i][j]),
                                           Cols(new)), Rows(new))
                      IN  [status |-> "ok",
                           mem |-> [h.mem EXCEPT !.output_weights = Wout],
                           value |-> Wout]

\* output_weights = np.dot(pinv2(hidden_nodes(X_train)), y_train)
\* `converges` is whether the decomposition inside pinv2 converges
output_weights_cell(mem, converges) ==
    LET h == hidden_nodes(mem)
    IN  IF h.status # "ok" THEN h
        ELSE IF ~converges
        THEN [status |-> "NumericalFailure", mem |-> h.mem, value |-> Unbound]
        ELSE LET P == pinv2(h.value)
             IN  IF ~Aligned(P, mem.Y)
                 THEN [status |-> "ShapeMismatch", mem |-> h.mem, value |-> Unbound]
                 ELSE LET Wout == dot(P, mem.Y)
                      IN  [status |-> "ok",
                           mem |-> [h.mem EXCEPT !.output_weights = Wout],
                           value |-> Wout]

\* train.values[:,1:] and train.values[:,:1]
Features(D) == Array(LAMBDA i : SubSeq(D[i], 2, Len(D[i])), Rows(D))
LabelColumn(D) == Array(LAMBDA i : SubSeq(D[i], 1, 1), Rows(D))

\* StandardScaler().fit_transform(X): every column is centred on its own mean
\* and divided by its own standard deviation; a column of zero deviation is
\* divided by 1
StandardScaler_fit_transform(X) ==
    LET scale == Array(LAMBDA j :
                     IF Variance(X, j) = Zero THEN One ELSE RSqrt(Variance(X, j)),
                     Cols(X))
    IN  Array(LAMBDA i : Array(LAMBDA j :
            RDiv(RSub(X[i][j], Mean(X, j)), scale[j]), Cols(X)), Rows(X))

\* OneHotEncoder(categories='auto').fit(y).categories_: the values that occur
\* in the column, in increasing order
RECURSIVE Sorted(_)
Sorted(S) ==
    IF S = {} THEN <<>>
    ELSE LET least == CHOOSE v \in S : \A w \in S : ~RLess(w, v)
         IN  <<least>> \o Sorted(S \ {least})

categories(y) == Sorted({y[i][1] : i \in 1..Rows(y)})

\* OneHotEncoder(categories='auto').fit_transform(y).toarray(): one column
\* per category of this very column y
OneHotEncoder_fit_transform(y) ==
    LET cats == categories(y)
    IN  Array(LAMBDA i : Array(LAMBDA j :
            IF cats[j] = y[i][1] THEN One ELSE Zero, Len(cats)), Rows(y))

\* cell 3
prepare(train, test) ==
    [X_train |-> StandardScaler_fit_transform(Features(train)),
     y_train |-> OneHotEncoder_fit_transform(LabelColumn(train)),
     X_test |-> StandardScaler_fit_transform(Features(test)),
     y_test |-> OneHotEncoder_fit_transform(LabelColumn(test))]

\* np.argmax: the first index (from 0) of the largest entry
argmax(v) ==
    (CHOOSE k \in 1..Len(v) :
        /\ \A m \in 1..Len(v) : ~RLess(v[k], v[m])
        /\ \A m \in 1..(k - 1) : RLess(v[m], v[k])) - 1

RECURSIVE count_correct(_, _, _)
\* the loop of cell 11 over the rows 0 .. i-1
count_correct(prediction, y_test, i) ==
    IF i = 0 THEN 0
    ELSE count_correct(prediction, y_test, i - 1) +
         (IF argmax(prediction[i]) = argmax(y_test[i]) THEN 1 ELSE 0)

\* predict returning the hidden activations while there are no weights
predict_without_weights(mem) ==
    LET h == hidden_nodes(mem)
    IN  IF h.status # "ok" THEN h
        ELSE IF h.mem.output_weights = Unbound
        THEN [status |-> "ok", mem |-> h.mem, value |-> h.value]
        ELSE IF ~Aligned(h.value, h.mem.output_weights)
        THEN [status |-> "ShapeMismatch", mem |-> h.mem, value |-> Unbound]
        ELSE [status |-> "ok", mem |-> h.mem,
              value |-> dot(h.value, h.mem.output_weights)]

\* def predict(X)
predict(mem) ==
    LET h == hidden_nodes(mem)
    IN  IF h.status # "ok" THEN h
        ELSE IF h.mem.output_weights = Unbound
        THEN [status |-> "ModelNotFitted", mem |-> h.mem, value |-> Unbound]
        ELSE IF ~Aligned(h.value, h.mem.output_weights)
        THEN [status |-> "ShapeMismatch", mem |-> h.mem, value |-> Unbound]
        ELSE [status |-> "ok", mem |-> h.mem,
              value |-> dot(h.value, h.mem.output_weights)]

(***************************************************************************)
(* The model's state.                                                      *)
(***************************************************************************)
VARIABLES
    input_weights,   \* W_in
    biases,          \* b
    output_weights,  \* W_out, Unbound until cell 9 has succeeded
    call,            \* the last call: its name and its arguments as passed
    result,          \* how the last call ended and what it returned
    X_caller,        \* the caller's feature matrix after the last call
    drawn,           \* the values input_weights and biases were drawn with
    runs,            \* two runs of the same model (same W_in and b), each
                     \* with its own output_weights and the data of its
                     \* latest successful Solve
    cells            \* the notebook's other names: train, test, X_train,
                     \* y_train, X_test, y_test, prediction, correct, total

vars == <<input_weights, biases, output_weights, call, result, X_caller, drawn,
          runs, cells>>

NoCall == [op |-> "none", X |-> Unbound, Y |-> Unbound, converges |-> TRUE]
NoResult == [status |-> "none", value |-> Unbound]
NoRun == [output_weights |-> Unbound, X |-> Unbound, Y |-> Unbound,
          replaced |-> FALSE]

NoCells ==
    [train |-> Unbound, test |-> Unbound, X_train |-> Unbound,
     y_train |-> Unbound, X_test |-> Unbound, y_test |-> Unbound,
     prediction |-> Unbound, correct |-> 0, total |-> 0]

\* cells 5-7: the weights and biases are drawn once
InitModel ==
    /\ \E seed \in Seeds :
          /\ input_weights = NormalMatrix(seed, 1, input_size, hidden_size)
          /\ biases = NormalMatrix(seed, input_size * hidden_size + 1, 1, hidden_size)[1]
    /\ drawn = [input_weights |-> input_weights, biases |-> biases]
    /\ output_weights = Unbound
    /\ call = NoCall
    /\ result = NoResult
    /\ X_caller = Unbound
    /\ runs = <<NoRun, NoRun>>

\* the model on its own, called with any arguments
Init == InitModel /\ cells = NoCells

\* what a call leaves behind: the arrays it could reach and its outcome
Finish(r) ==
    /\ input_weights' = r.mem.input_weights
    /\ biases' = r.mem.biases
    /\ output_weights' = r.mem.output_weights
    /\ X_caller' = r.mem.X
    /\ result' = [status |-> r.status, value |-> r.value]
    /\ UNCHANGED <<drawn, runs>>

Called(op, X, Y, converges) ==
    call' = [op |-> op, X |-> X, Y |-> Y, converges |-> converges]

\* hidden_nodes(X)
Project(X) ==
    /\ Called("Project", X, Unbound, TRUE)
    /\ UNCHANGED cells
    /\ Finish(hidden_nodes(
           Memory(X, Unbound, input_weights, biases, output_weights)))

\* cell 9 run with X_train = X and y_train = Y
Solve(X, Y, converges) ==
    /\ Called("Solve", X, Y, converges)
    /\ UNCHANGED cells
    /\ Finish(output_weights_cell(
           Memory(X, Y, input_weights, biases, output_weights), converges))

\* predict(X)
Predict(X) ==
    /\ Called("Predict", X, Unbound, TRUE)
    /\ UNCHANGED cells
    /\ Finish(predict(
           Memory(X, Unbound, input_weights, biases, output_weights)))

Next ==
    \/ \E X \in FeatureMatrices : Project(X)
    \/ \E X \in FeatureMatrices, Y \in LabelMatrices, converges \in BOOLEAN :
          Solve(X, Y, converges)
    \/ \E X \in FeatureMatrices : Predict(X)

Spec == Init /\ [][Next]_vars

(***************************************************************************)
(* Two runs of one model, for the claim that compares runs: both have the  *)
(* same input_weights and biases, and each runs cell 9 on its own data.    *)
(* A run remembers the data of its latest successful Solve and whether     *)
(* that Solve replaced weights that were already there.                    *)
(***************************************************************************)
\* cell 9 in run k, with X_train = X and y_train = Y
SolveIn(k, X, Y, converges) ==
    LET run == runs[k]
        r == output_weights_cell(
                 Memory(X, Y, input_weights, biases, run.output_weights),
                 converges)
        after == IF r.status = "ok"
                 THEN [output_weights |-> r.mem.output_weights, X |-> X, Y |-> Y,
                       replaced |-> run.output_weights # Unbound]
                 ELSE [run EXCEPT !.output_weights = r.mem.output_weights]
    IN  /\ runs' = [runs EXCEPT ![k] = after]
        /\ UNCHANGED <<input_weights, biases, output_weights, call, result,
                       X_caller, drawn, cells>>

NextRuns ==
    \E k \in {1, 2}, X \in FeatureMatrices, Y \in LabelMatrices,
       converges \in BOOLEAN : SolveIn(k, X, Y, converges)

SpecRuns == Init /\ [][NextRuns]_vars

(***************************************************************************)
(* The notebook run from top to bottom on a train and a test set.          *)
(***************************************************************************)
\* cell 2: the data sets are loaded
InitNotebook ==
    /\ InitModel
    /\ \E train \in Datasets, test \in Datasets :
          cells = [NoCells EXCEPT !.train = train, !.test = test]

\* cell 3
PrepareCell ==
    /\ cells.X_train = Unbound
    /\ LET p == prepare(cells.train, cells.test)
       IN  cells' = [cells EXCEPT !.X_train = p.X_train, !.y_train = p.y_train,
                                  !.X_test = p.X_test, !.y_test = p.y_test]
    /\ UNCHANGED <<input_weights, biases, output_weights, call, result,
                   X_caller, drawn, runs>>

\* cell 9
FitCell(converges) ==
    /\ cells.X_train # Unbound
    /\ output_weights = Unbound
    /\ Called("Solve", cells.X_train, cells.y_train, converges)
    /\ Finish(output_weights_cell(
           Memory(cells.X_train, cells.y_train, input_weights, biases,
                  output_weights), converges))
    /\ UNCHANGED cells

\* cell 11: predict(X_test), then the accuracy loop
AccuracyCell ==
    /\ output_weights # Unbound
    /\ cells.prediction = Unbound
    /\ LET r == predict(Memory(cells.X_test, Unbound, input_weights, biases,
                               output_weights))
       IN  /\ Called("Predict", cells.X_test, Unbound, TRUE)
           /\ Finish(r)
           /\ cells' = IF r.status # "ok" THEN cells
                       ELSE [cells EXCEPT
                               !.prediction = r.value,
                               !.total = Rows(cells.X_test),
                               !.correct = count_correct(r.value, cells.y_test,
                                                         Rows(cells.X_test))]

NextNotebook ==
    \/ PrepareCell
    \/ \E converges \in BOOLEAN : FitCell(converges)
    \/ AccuracyCell

SpecNotebook == InitNotebook /\ [][NextNotebook]_vars

(***************************************************************************)
(* Properties of Project, Solve and Predict.                               *)
(***************************************************************************)
Fitted == output_weights # Unbound
Failed(r) == r.status \in {"ShapeMismatch", "ModelNotFitted", "NumericalFailure"}
RMax(p, q) == IF RLess(p, q) THEN q ELSE p

RECURSIVE SumOver(_, _)
SumOver(F(_), n) == IF n = 0 THEN Zero ELSE RAdd(SumOver(F, n - 1), F(n))

\* entry (i, j) of X . W_in + b
Preactivation(X, i, j) ==
    RAdd(SumOver(LAMBDA k : RMul(X[i][k], input_weights[k][j]), input_size),
         biases[j])

\* C1 (as amended): Predict on an Unfitted model always fails and returns no
\* score matrix; the error is ModelNotFitted when X has input_size columns
\* and ShapeMismatch when it has not, since hidden_nodes(X) runs first.
C1_UnfittedPredictFails ==
    [][(~Fitted /\ call'.op = "Predict") =>
          /\ result'.value = Unbound
          /\ result'.status = IF Cols(call'.X) = input_size
                              THEN "ModelNotFitted" ELSE "ShapeMismatch"]_vars

\* C1 (as stated): Predict on an Unfitted model fails with ModelNotFitted
\* for every input X.
C1_AlwaysModelNotFitted ==
    [][(~Fitted /\ call'.op = "Predict") =>
          result' = [status |-> "ModelNotFitted", value |-> Unbound]]_vars

C1_Witness ==
    /\ ~Fitted
    /\ call.op = "Predict"
    /\ Cols(call.X) = input_size
    /\ result.status = "ModelNotFitted"

\* C2: the model goes from Unfitted to Fitted only by a successful Solve,
\* and never from Fitted back to Unfitted.
C2_Lifecycle ==
    [][/\ (~Fitted /\ Fitted') => (call'.op = "Solve" /\ result'.status = "ok")
       /\ Fitted => Fitted']_vars

C2_Witness ==
    /\ Fitted
    /\ call.op = "Solve"
    /\ result.status = "NumericalFailure"

\* C3: a Solve or Project call that fails leaves W_in, b and W_out (and
\* whether W_out is present) exactly as they were.
C3_FailureLeavesParameters ==
    [][(call'.op \in {"Solve", "Project"} /\ Failed(result')) =>
          /\ input_weights' = input_weights
          /\ biases' = biases
          /\ output_weights' = output_weights]_vars

C3_Witness ==
    /\ Fitted
    /\ call.op = "Solve"
    /\ Cols(call.X) = input_size
    /\ result.status = "ShapeMismatch"

\* C4: W_in and b are what was drawn at initialization, in every state.
C4_WeightsFixed ==
    /\ input_weights = drawn.input_weights
    /\ biases = drawn.biases

C4_Witness ==
    /\ Fitted
    /\ call.op = "Predict"
    /\ result.status = "ok"

\* C6: for X with input_size columns, Project(X) has shape (n, hidden_size),
\* equals max(X . W_in + b, 0) entry by entry, and has no negative entry.
C6_Projection ==
    (call.op = "Project" /\ Cols(call.X) = input_size) =>
        /\ result.status = "ok"
        /\ Rows(result.value) = Rows(call.X)
        /\ \A i \in 1..Rows(call.X) :
              /\ Len(result.value[i]) = hidden_size
              /\ \A j \in 1..hidden_size :
                    /\ result.value[i][j] = RMax(Preactivation(call.X, i, j), Zero)
                    /\ ~RLess(result.value[i][j], Zero)

C6_Witness ==
    /\ call.op = "Project"
    /\ result.status = "ok"
    /\ \E i \in 1..Rows(call.X), j \in 1..hidden_size :
          RLess(Preactivation(call.X, i, j), Zero)
    /\ \E i \in 1..Rows(call.X), j \in 1..hidden_size :
          RLess(Zero, Preactivation(call.X, i, j))

\* C7 (as amended): incompatible dimensions never give a result.  Project
\* and Predict fail with ShapeMismatch when X has not input_size columns.
\* Solve with different row counts of H and Y fails: with ShapeMismatch,
\* unless the pseudo-inverse of H did not converge, which is raised first
\* as NumericalFailure.
C7_ShapeErrors ==
    /\ (call.op \in {"Project", "Predict"} /\ Cols(call.X) # input_size) =>
          result = [status |-> "ShapeMismatch", value |-> Unbound]
    /\ (call.op = "Solve" /\ Rows(call.X) # Rows(call.Y)) =>
          /\ result.value = Unbound
          /\ result.status = IF Cols(call.X) = input_size /\ ~call.converges
                             THEN "NumericalFailure" ELSE "ShapeMismatch"

\* C7 (as stated): incompatible dimensions always give ShapeMismatch.
C7_AlwaysShapeMismatch ==
    /\ (call.op \in {"Project", "Predict"} /\ Cols(call.X) # input_size) =>
          result = [status |-> "ShapeMismatch", value |-> Unbound]
    /\ (call.op = "Solve" /\ Rows(call.X) # Rows(call.Y)) =>
          result = [status |-> "ShapeMismatch", value |-> Unbound]

C7_Witness ==
    /\ call.op = "Solve"
    /\ Cols(call.X) = input_size
    /\ Rows(call.X) # Rows(call.Y)
    /\ call.converges
    /\ result.status = "ShapeMismatch"

\* C8: Project(X) and Predict(X) leave the caller's X and W_in, b, W_out
\* as they were, although relu writes in place.
C8_NoSideEffects ==
    [][call'.op \in {"Project", "Predict"} =>
          /\ X_caller' = call'.X
          /\ input_weights' = input_weights
          /\ biases' = biases
          /\ output_weights' = output_weights]_vars

C8_Witness ==
    /\ call.op = "Project"
    /\ result.status = "ok"
    /\ \E i \in 1..Rows(call.X), k \in 1..input_size : RLess(call.X[i][k], Zero)
    /\ \E i \in 1..Rows(call.X), j \in 1..hidden_size :
          RLess(Preactivation(call.X, i, j), Zero)
    /\ X_caller = call.X

\* the scores predict(X) gives with the weights Wout
Scores(X, Wout) ==
    LET r == predict(Memory(X, Unbound, input_weights, biases, Wout))
    IN  [status |-> r.status, value |-> r.value]

\* C5: two runs of one model whose latest successful Solve used the same
\* (X_train, Y_train) predict the same for every X, whatever each run had
\* fitted before.
C5_RefitReplaces ==
    (runs[1].X # Unbound /\ runs[1].X = runs[2].X /\ runs[1].Y = runs[2].Y) =>
        \A X \in FeatureMatrices :
            Scores(X, runs[1].output_weights) = Scores(X, runs[2].output_weights)

C5_Witness ==
    /\ runs[1].X # Unbound
    /\ runs[1].X = runs[2].X
    /\ runs[1].Y = runs[2].Y
    /\ runs[1].replaced
    /\ ~runs[2].replaced
    /\ \E X \in FeatureMatrices :
          Scores(X, runs[1].output_weights).status = "ok"

(***************************************************************************)
(* Properties of the preparation and of the accuracy loop.                 *)
(***************************************************************************)
InUnitRange(A) ==
    \A i \in 1..Rows(A), j \in 1..Cols(A) :
        ~RLess(A[i][j], Zero) /\ ~RLess(One, A[i][j])

\* C9: the features are normalized into the range (0,1): every value of
\* X_train and of X_test lies between 0 and 1.
C9_FeaturesInUnitRange ==
    cells.X_train # Unbound =>
        InUnitRange(cells.X_train) /\ InUnitRange(cells.X_test)

\* the label of row i of a raw data set
Label(D, i) == D[i][1]

\* C10: a label has the same column in y_test as in y_train, so the accuracy
\* loop counts exactly the rows whose predicted class is their true class
\* (the class of a column being the label y_train gives that column).
C10_SameColumns ==
    /\ cells.y_train # Unbound =>
          \A i \in 1..Rows(cells.test), k \in 1..Rows(cells.train) :
              Label(cells.test, i) = Label(cells.train, k) =>
                  argmax(cells.y_test[i]) = argmax(cells.y_train[k])
    /\ cells.prediction # Unbound =>
          cells.correct =
              Cardinality({i \in 1..Rows(cells.test) :
                  \E k \in 1..Rows(cells.train) :
                      /\ Label(cells.train, k) = Label(cells.test, i)
                      /\ argmax(cells.y_train[k]) = argmax(cells.prediction[i])})

====
